---- MODULE Spec2Model ----
(***************************************************************************)
(* A model of the LaTeX reference formatter: src/process_bib.py (the       *)
(* permissive pipeline) and src/main.py (the strict, per-venue pipeline).  *)
(*                                                                         *)
(* A Python str is a sequence of one-character strings, so that lower(),   *)
(* isupper(), capitalize(), split(), strip() and the two regular           *)
(* expressions are computed character by character.  A bibliography entry  *)
(* is a function from dict keys ("ID", "ENTRYTYPE", "title", ...) to str,  *)
(* as bibtexparser gives it; a Python list is a sequence, a dict a         *)
(* sequence of entries in insertion order or a function.                   *)
(***************************************************************************)
EXTENDS Integers, Sequences, FiniteSets, TLC

VARIABLES
    pc,                     \* the statement of main() (or of the harness) that runs next
    tex_files,              \* the contents of the .tex files, in os.walk order
    bib_files,              \* the parsed .bib files, in os.listdir order
    conference,             \* args.conference (main.py)
    citation_keys,          \* main(): citation_keys
    all_entries,            \* main(): all_entries
    warnings,               \* the duplicate lines read_bib_files has printed
    category_fields,        \* main(): category_fields
    missing_fields_report,  \* main(): missing_fields_report
    idx,                    \* the position of the validation loop in all_entries
    required_fields,        \* main(): required_fields of the entry validated last
    used_entries,           \* main(): used_entries
    unused_entries,         \* main(): unused_entries
    arg,                    \* harness: the argument a function is applied to
    tokens,                 \* title_case(): tokens
    new_title_parts,        \* title_case(): new_title_parts
    ret,                    \* harness: the value the function returned
    ret2                    \* harness: the value it returned when applied to ret

vars == <<pc, tex_files, bib_files, conference, citation_keys, all_entries,
          warnings, category_fields, missing_fields_report, idx,
          required_fields, used_entries, unused_entries,
          arg, tokens, new_title_parts, ret, ret2>>

pipeVars == <<tex_files, bib_files, conference, citation_keys, all_entries,
              warnings, category_fields, missing_fields_report, idx,
              required_fields, used_entries, unused_entries>>

harnessVars == <<arg, tokens, new_title_parts, ret, ret2>>

(***************************************************************************)
(* Python str                                                              *)
(***************************************************************************)

\* The str of a literal: its characters in order.
S(s) == [k \in 1..Len(s) |-> SubSeq(s, k, k)]

Range(f) == {f[k] : k \in DOMAIN f}

\* ASCII 32..95 and 97..126, in code point order (96 is not used).
AsciiLow == S(" !\"#$%&'()*+,-./0123456789:;<=>?@ABCDEFGHIJKLMNOPQRSTUVWXYZ[\\]^_")

AsciiHigh == S("abcdefghijklmnopqrstuvwxyz{|}~")

\* ord(c) of the characters the model uses.
Ord == [c \in Range(AsciiLow) \cup Range(AsciiHigh) \cup {"\t", "\n", "\r", "\f"} |->
          CASE c = "\t" -> 9
            [] c = "\n" -> 10
            [] c = "\f" -> 12
            [] c = "\r" -> 13
            [] c \in Range(AsciiLow) -> 31 + (CHOOSE k \in DOMAIN AsciiLow : AsciiLow[k] = c)
            [] OTHER -> 96 + (CHOOSE k \in DOMAIN AsciiHigh : AsciiHigh[k] = c)]

Chr(n) == IF n < 96 THEN AsciiLow[n - 31] ELSE AsciiHigh[n - 96]

IsUpperCh(c) == Ord[c] \in 65..90

IsLowerCh(c) == Ord[c] \in 97..122

IsAlpha(c) == IsUpperCh(c) \/ IsLowerCh(c)

\* What \s of re and str.strip()/split() take for whitespace.
IsSpace(c) == c \in {" ", "\t", "\n", "\r", "\f"}

LowerCh(c) == IF IsUpperCh(c) THEN Chr(Ord[c] + 32) ELSE c

UpperCh(c) == IF IsLowerCh(c) THEN Chr(Ord[c] - 32) ELSE c

\* str.lower()
Lower(s) == [k \in 1..Len(s) |-> LowerCh(s[k])]

\* str.isupper(): some cased character, and no lowercase one.
IsUpper(s) ==
    /\ \E k \in 1..Len(s) : IsUpperCh(s[k])
    /\ \A k \in 1..Len(s) : ~IsLowerCh(s[k])

\* str.capitalize(): first character upper, the rest lower.
Capitalize(s) == [k \in 1..Len(s) |-> IF k = 1 THEN UpperCh(s[k]) ELSE LowerCh(s[k])]

\* a < b for str: lexicographic by code point.
RECURSIVE StrLess(_, _)
StrLess(a, b) ==
    IF b = <<>> THEN FALSE
    ELSE IF a = <<>> THEN TRUE
    ELSE IF a[1] = b[1] THEN StrLess(Tail(a), Tail(b))
    ELSE Ord[a[1]] < Ord[b[1]]

\* sep.join(parts)
RECURSIVE Join(_, _)
Join(sep, parts) ==
    IF parts = <<>> THEN <<>>
    ELSE IF Len(parts) = 1 THEN parts[1]
    ELSE parts[1] \o sep \o Join(sep, Tail(parts))

\* The least k in from..Len(s) with s[k] in chars, or 0.
FirstOf(s, from, chars) ==
    IF \E k \in from..Len(s) : s[k] \in chars
    THEN CHOOSE k \in from..Len(s) :
            /\ s[k] \in chars
            /\ \A j \in from..(k - 1) : s[j] \notin chars
    ELSE 0

\* The end of the longest run of letters that starts at from (from - 1: none).
LettersEnd(s, from) ==
    IF \E k \in from..Len(s) : ~IsAlpha(s[k])
    THEN (CHOOSE k \in from..Len(s) :
            /\ ~IsAlpha(s[k])
            /\ \A j \in from..(k - 1) : IsAlpha(s[j])) - 1
    ELSE Len(s)

(***************************************************************************)
(* title_case (process_bib.py)                                             *)
(***************************************************************************)

\* lowercase_words of title_case (main.py).
lowercase_words ==
    {S("with"), S("a"), S("an"), S("and"), S("as"), S("at"), S("but"), S("by"),
     S("for"), S("in"), S("nor"), S("of"), S("on"), S("or"), S("so"), S("the"),
     S("to"), S("up"), S("yet")}

\* The list of the other title_case (main.py), taken for small_words.
small_words_of_main == lowercase_words

small_words ==
    {S("a"), S("an"), S("the"), S("and"), S("but"), S("or"), S("for"), S("nor"),
     S("on"), S("at"), S("to"), S("from"), S("by"), S("of"), S("in"), S("out"),
     S("over"), S("with"), S("is"), S("ok"), S("as"), S("if"), S("be"),
     S("into"), S("than"), S("that")}

\* {.*?} at p: "{", then the first "}" after it, no line break in between.
\* The end of the match, or 0.
GroupEnd(s, p) ==
    IF p > Len(s) \/ s[p] # "{" THEN 0
    ELSE LET r == FirstOf(s, p + 1, {"}", "\n"})
         IN  IF r # 0 /\ s[r] = "}" THEN r ELSE 0

\* \\[a-zA-Z]+\{.*?\} at p; the end of the match, or 0.
CommandEnd(s, p) ==
    IF s[p] # "\\" THEN 0
    ELSE LET q == LettersEnd(s, p + 1)
         IN  IF q < p + 1 THEN 0 ELSE GroupEnd(s, q + 1)

\* [^\s]+ at p; the end of the match, or 0.
WordEnd(s, p) ==
    IF IsSpace(s[p]) THEN 0
    ELSE LET r == FirstOf(s, p, {" ", "\t", "\n", "\r", "\f"})
         IN  IF r = 0 THEN Len(s) ELSE r - 1

\* The pattern's three alternatives, in order, at p.
TokenEnd(s, p) ==
    IF CommandEnd(s, p) # 0 THEN CommandEnd(s, p)
    ELSE IF GroupEnd(s, p) # 0 THEN GroupEnd(s, p)
    ELSE WordEnd(s, p)

\* pattern.findall(title) from position p on.
RECURSIVE FindTokens(_, _)
FindTokens(s, p) ==
    IF p > Len(s) THEN <<>>
    ELSE LET e == TokenEnd(s, p)
         IN  IF e = 0 THEN FindTokens(s, p + 1)
             ELSE <<SubSeq(s, p, e)>> \o FindTokens(s, e + 1)

\* token.startswith('\\') or (token.startswith('{') and token.endswith('}'))
IsOpaque(token) ==
    \/ token[1] = "\\"
    \/ token[1] = "{" /\ token[Len(token)] = "}"

\* The body of the loop over the tokens: new_title_parts[i].
TitlePart(toks, k) ==
    LET word == toks[k]
    IN  IF IsOpaque(word) THEN word
        ELSE IF IsUpper(word) THEN word
        ELSE IF k = 1 \/ k = Len(toks) THEN Capitalize(word)
        ELSE IF Lower(word) \in small_words THEN Lower(word)
        ELSE Capitalize(word)

title_case_parts(title) ==
    LET toks == FindTokens(title, 1)
    IN  [k \in 1..Len(toks) |-> TitlePart(toks, k)]

title_case(title) == Join(<<" ">>, title_case_parts(title))

(***************************************************************************)
(* The values the variables of a specification that does not use them keep *)
(***************************************************************************)

PipelineIdle ==
    /\ tex_files = <<>>
    /\ bib_files = <<>>
    /\ conference = "CHI"
    /\ citation_keys = {}
    /\ all_entries = <<>>
    /\ warnings = <<>>
    /\ category_fields = <<>>
    /\ missing_fields_report = <<>>
    /\ idx = 0
    /\ required_fields = <<>>
    /\ used_entries = <<>>
    /\ unused_entries = <<>>

HarnessIdle ==
    /\ arg = <<>>
    /\ tokens = <<>>
    /\ new_title_parts = <<>>
    /\ ret = <<>>
    /\ ret2 = <<>>

(***************************************************************************)
(* SpecTitle: title_case applied to a title, and again to its result       *)
(***************************************************************************)

\* The most pieces a title of TitlePieces is made of.
MaxTitlePieces == 3

\* The most words between the first and the last word of a worded title.
MaxInteriorWords == 1

\* Pieces with braces, a command, capitals and a function word.
TitlePieces == {S("a"), S("GAN"), S("{"), S("}s"), S("{x y}"), S("\\em{b}"), S("of")}

TitleSeparators == {S(" "), S("\n")}

\* The function words of both lists, in several casings, and other words.
InteriorWords ==
    small_words \cup
    {S("Of"), S("iNto"), S("Ok"), S("OK"), S("THE"), S("deep"), S("Deep"),
     S("nEts"), S("so"), S("up"), S("yet"), S("3d"), S("{x"), S("--")}

RECURSIVE PiecedTitles(_)
PiecedTitles(n) ==
    IF n = 1 THEN TitlePieces
    ELSE {t \o sep \o p : t \in PiecedTitles(n - 1), sep \in TitleSeparators, p \in TitlePieces}

RECURSIVE WordRuns(_)
WordRuns(n) ==
    IF n = 0 THEN {<<>>}
    ELSE {r \o S(" ") \o w : r \in WordRuns(n - 1), w \in InteriorWords}

TitleInputs ==
    {<<>>}
    \cup UNION {PiecedTitles(n) : n \in 1..MaxTitlePieces}
    \cup UNION {{first \o r \o S(" ") \o last :
                    r \in WordRuns(n), first \in {S("on"), S("Learning")},
                    last \in {S("nets"), S("in")}} : n \in 0..MaxInteriorWords}

TitleInit ==
    /\ pc = "title_case"
    /\ arg \in TitleInputs
    /\ tokens = <<>>
    /\ new_title_parts = <<>>
    /\ ret = <<>>
    /\ ret2 = <<>>
    /\ PipelineIdle

\* new_title = title_case(title)
ApplyTitleCase ==
    /\ pc = "title_case"
    /\ tokens' = FindTokens(arg, 1)
    /\ new_title_parts' = title_case_parts(arg)
    /\ ret' = title_case(arg)
    /\ pc' = "title_case_again"
    /\ UNCHANGED <<arg, ret2>>
    /\ UNCHANGED pipeVars

\* title_case(new_title)
ApplyTitleCaseAgain ==
    /\ pc = "title_case_again"
    /\ ret2' = title_case(ret)
    /\ pc' = "done"
    /\ UNCHANGED <<arg, tokens, new_title_parts, ret>>
    /\ UNCHANGED pipeVars

TitleNext == ApplyTitleCase \/ ApplyTitleCaseAgain

SpecTitle == TitleInit /\ [][TitleNext]_vars

\* C7: title-casing is idempotent: title_case(title_case(t)) = title_case(t)
\* for every title t, line breaks and unbalanced braces included.
TitleCaseIdempotent == pc = "done" => ret2 = ret

\* The interior plain words of the title that are not all uppercase.
InteriorPlainWords ==
    {k \in 2..(Len(tokens) - 1) : ~IsOpaque(tokens[k]) /\ ~IsUpper(tokens[k])}

\* The closed list of C8.
ClaimedSmallWords ==
    {S("a"), S("an"), S("the"), S("and"), S("but"), S("or"), S("for"), S("nor"),
     S("on"), S("at"), S("to"), S("from"), S("by"), S("of"), S("in"), S("out"),
     S("over"), S("with"), S("is"), S("as"), S("if"), S("be"), S("into"),
     S("than"), S("that")}

InteriorWordsFollow(words) ==
    pc # "title_case" =>
        \A k \in InteriorPlainWords :
            new_title_parts[k] =
                IF Lower(tokens[k]) \in words
                THEN Lower(tokens[k]) ELSE Capitalize(tokens[k])

\* C8 as stated: an interior plain word that is not all uppercase is output
\* in lowercase if and only if its lowercased form is one of the 25 listed
\* words, and capitalized otherwise.
InteriorWordsAsClaimed == InteriorWordsFollow(ClaimedSmallWords)

\* C8 as amended: the same with "ok" added to the list (26 words).
InteriorWordsAmended == InteriorWordsFollow(ClaimedSmallWords \cup {S("ok")})

\* Reached: "Ok" and "Of" between two words come out as "ok" and "of",
\* "deep" as "Deep".
InteriorWordsWitness ==
    /\ pc = "done"
    /\ \E k \in InteriorPlainWords : tokens[k] = S("Ok") /\ new_title_parts[k] = S("ok")

(***************************************************************************)
(* sort_entries (process_bib.py)                                           *)
(***************************************************************************)

\* entry.get(key, default)
Get(entry, key, default) == IF key \in DOMAIN entry THEN entry[key] ELSE default

\* entry.get('ENTRYTYPE', 'misc').lower()
SortType(entry) == Lower(Get(entry, "ENTRYTYPE", S("misc")))

\* key=lambda e: e.get('title', '').lower()
TitleKey(entry) == Lower(Get(entry, "title", <<>>))

\* type_order with its first two types exchanged.
type_order_exchanged ==
    <<S("article"), S("inproceedings"), S("proceedings"), S("book"), S("misc")>>

type_order ==
    <<S("inproceedings"), S("article"), S("proceedings"), S("book"), S("misc")>>

\* sorted(strs) of a set of str.
RECURSIVE Sorted(_)
Sorted(strs) ==
    IF strs = {} THEN <<>>
    ELSE LET least == CHOOSE a \in strs : \A b \in strs : ~StrLess(b, a)
         IN  <<least>> \o Sorted(strs \ {least})

\* An unstable sort: the entry goes before the entries with an equal key.
InsertByTitleUnstable(sorted, entry) ==
    LET before == {k \in 1..Len(sorted) : StrLess(TitleKey(sorted[k]), TitleKey(entry))}
        n == Cardinality(before)
    IN  SubSeq(sorted, 1, n) \o <<entry>> \o SubSeq(sorted, n + 1, Len(sorted))

\* Where list.sort puts an entry that comes after the entries of sorted in
\* the list: behind every entry whose key is not greater (the sort is stable).
InsertByTitle(sorted, entry) ==
    LET before == {k \in 1..Len(sorted) : ~StrLess(TitleKey(entry), TitleKey(sorted[k]))}
        n == Cardinality(before)
    IN  SubSeq(sorted, 1, n) \o <<entry>> \o SubSeq(sorted, n + 1, Len(sorted))

\* entries_of_type.sort(key=...)
RECURSIVE SortByTitle(_)
SortByTitle(entries) ==
    IF entries = <<>> THEN <<>>
    ELSE InsertByTitle(SortByTitle(SubSeq(entries, 1, Len(entries) - 1)),
                       entries[Len(entries)])

\* grouped_entries.get(entry_type, []): the entries of the type, in list order.
EntriesOfType(entries, entry_type) ==
    SelectSeq(entries, LAMBDA e : SortType(e) = entry_type)

full_type_order(entries) ==
    type_order \o Sorted({SortType(entries[k]) : k \in 1..Len(entries)} \ Range(type_order))

RECURSIVE ExtendAll(_, _)
ExtendAll(entries, types) ==
    IF types = <<>> THEN <<>>
    ELSE SortByTitle(EntriesOfType(entries, types[1])) \o ExtendAll(entries, Tail(types))

sort_entries(entries) == ExtendAll(entries, full_type_order(entries))

(***************************************************************************)
(* SpecSort: sort_entries applied to an entry list, and again to its       *)
(* result                                                                  *)
(***************************************************************************)

\* The most entries of a list that is sorted.
MaxSortLen == 3

\* Entries of the five types of type_order and of two others, with a
\* capitalized type, without a title, and with titles that are equal once
\* lowercased.
SortPool ==
    {[ID |-> S("k1"), ENTRYTYPE |-> S("inproceedings"), title |-> S("Zeta")],
     [ID |-> S("k2"), ENTRYTYPE |-> S("article"), title |-> S("beta")],
     [ID |-> S("k3"), ENTRYTYPE |-> S("Article"), title |-> S("Beta")],
     [ID |-> S("k4"), ENTRYTYPE |-> S("article")],
     [ID |-> S("k5"), ENTRYTYPE |-> S("misc"), title |-> S("alpha")],
     [ID |-> S("k6"), ENTRYTYPE |-> S("techreport"), title |-> S("alpha")],
     [ID |-> S("k7"), ENTRYTYPE |-> S("phdthesis"), title |-> S("alpha")],
     [ID |-> S("k8"), ENTRYTYPE |-> S("book"), title |-> <<>>],
     [ID |-> S("k9"), ENTRYTYPE |-> S("misc"), title |-> S("Alpha")],
     [ID |-> S("k10"), ENTRYTYPE |-> S("proceedings"), title |-> S("beta")]}

RECURSIVE ListsOf(_, _)
ListsOf(pool, n) ==
    IF n = 0 THEN {<<>>}
    ELSE ListsOf(pool, n - 1) \cup
         {Append(l, e) : l \in {m \in ListsOf(pool, n - 1) : Len(m) = n - 1}, e \in pool}

SortInit ==
    /\ pc = "sort_entries"
    /\ arg \in ListsOf(SortPool, MaxSortLen)
    /\ tokens = <<>>
    /\ new_title_parts = <<>>
    /\ ret = <<>>
    /\ ret2 = <<>>
    /\ PipelineIdle

\* sorted_entries = sort_entries(entries)
ApplySort ==
    /\ pc = "sort_entries"
    /\ ret' = sort_entries(arg)
    /\ pc' = "sort_entries_again"
    /\ UNCHANGED <<arg, tokens, new_title_parts, ret2>>
    /\ UNCHANGED pipeVars

\* sort_entries(sorted_entries)
ApplySortAgain ==
    /\ pc = "sort_entries_again"
    /\ ret2' = sort_entries(ret)
    /\ pc' = "done"
    /\ UNCHANGED <<arg, tokens, new_title_parts, ret>>
    /\ UNCHANGED pipeVars

SortNext == ApplySort \/ ApplySortAgain

SpecSort == SortInit /\ [][SortNext]_vars

\* The number of places of list that hold entry.
Count(list, entry) == Cardinality({k \in 1..Len(list) : list[k] = entry})

\* The lowercased type of an entry, as the claim has it.
ClaimedType(entry) == Lower(entry.ENTRYTYPE)

\* The type priority of C5: the five listed types in that order, then every
\* other type, in lexicographic order.
TypeNotAfter(t1, t2) ==
    LET listed == <<S("inproceedings"), S("article"), S("proceedings"), S("book"), S("misc")>>
        Place(t) == CHOOSE k \in 1..5 : listed[k] = t
    IN  IF t1 \in Range(listed)
        THEN t2 \in Range(listed) => Place(t1) <= Place(t2)
        ELSE t2 \notin Range(listed) /\ ~StrLess(t2, t1)

\* The title an entry is sorted by: lowercased, the empty string without one.
ClaimedTitle(entry) == IF "title" \in DOMAIN entry THEN Lower(entry.title) ELSE <<>>

\* C5: the output of sort_entries is a permutation of its input, ordered by
\* type priority, within a type by lowercased title ascending (no title: the
\* empty string), and entries of one type with equal lowercased titles keep
\* their input order.
SortOrdersEntries ==
    pc # "sort_entries" =>
        /\ Len(ret) = Len(arg)
        /\ \A k \in 1..Len(arg) : Count(ret, arg[k]) = Count(arg, arg[k])
        /\ \A j \in 1..Len(ret) : \A k \in j..Len(ret) :
            /\ TypeNotAfter(ClaimedType(ret[j]), ClaimedType(ret[k]))
            /\ ClaimedType(ret[j]) = ClaimedType(ret[k]) =>
                    ~StrLess(ClaimedTitle(ret[k]), ClaimedTitle(ret[j]))
        /\ \A k \in 1..Len(arg) :
            LET Same(e) == /\ ClaimedType(e) = ClaimedType(arg[k])
                           /\ ClaimedTitle(e) = ClaimedTitle(arg[k])
            IN  SelectSeq(ret, Same) = SelectSeq(arg, Same)

\* Reached: a list of three entries that is not in sorted order, two of
\* them of one type with titles equal once lowercased, has been sorted.
SortWitness ==
    /\ pc = "done"
    /\ Len(arg) = 3
    /\ ret # arg
    /\ \E j, k \in 1..3 :
        /\ j < k
        /\ arg[j] # arg[k]
        /\ ClaimedType(arg[j]) = ClaimedType(arg[k])
        /\ ClaimedTitle(arg[j]) = ClaimedTitle(arg[k])

\* C6: sorting is idempotent: sort_entries(sort_entries(L)) = sort_entries(L).
SortIdempotent == pc = "done" => ret2 = ret

\* Reached: sorting changed the list, and the sorted list holds two different
\* entries of one type with titles equal once lowercased.
SortIdempotentWitness ==
    /\ pc = "done"
    /\ ret # arg
    /\ \E j, k \in 1..Len(ret) :
        /\ j < k
        /\ ret[j] # ret[k]
        /\ SortType(ret[j]) = SortType(ret[k])
        /\ TitleKey(ret[j]) = TitleKey(ret[k])

(***************************************************************************)
(* extract_citation_keys                                                   *)
(***************************************************************************)

\* Where \\cite[a-zA-Z]*\*?{ matched at p ends (at its "{"), or 0.
CiteHeadEnd(s, p) ==
    IF p + 4 > Len(s) \/ SubSeq(s, p, p + 4) # S("\\cite") THEN 0
    ELSE LET q == LettersEnd(s, p + 5)
             r == IF q + 1 <= Len(s) /\ s[q + 1] = "*" THEN q + 1 ELSE q
         IN  IF r + 1 <= Len(s) /\ s[r + 1] = "{" THEN r + 1 ELSE 0

\* Where cite_pattern matched at p ends (at its "}"), or 0: ([^}]+) takes at
\* least one character.
CiteEnd(s, p) ==
    LET b == CiteHeadEnd(s, p)
        e == IF b = 0 THEN 0 ELSE FirstOf(s, b + 1, {"}"})
    IN  IF b # 0 /\ e > b + 1 THEN e ELSE 0

\* cite_pattern.findall(content) from position p on: the groups matched.
RECURSIVE FindCites(_, _)
FindCites(s, p) ==
    IF p > Len(s) THEN <<>>
    ELSE LET e == CiteEnd(s, p)
         IN  IF e = 0 THEN FindCites(s, p + 1)
             ELSE <<SubSeq(s, CiteHeadEnd(s, p) + 1, e - 1)>> \o FindCites(s, e + 1)

\* match.split(',')
RECURSIVE Split(_, _)
Split(s, sep) ==
    LET k == FirstOf(s, 1, {sep})
    IN  IF k = 0 THEN <<s>>
        ELSE <<SubSeq(s, 1, k - 1)>> \o Split(SubSeq(s, k + 1, Len(s)), sep)

\* key.strip() left out.
StripNothing(s) == s

\* key.strip()
Strip(s) ==
    LET inked == {k \in 1..Len(s) : ~IsSpace(s[k])}
    IN  IF inked = {} THEN <<>>
        ELSE SubSeq(s, CHOOSE k \in inked : \A j \in inked : k <= j,
                       CHOOSE k \in inked : \A j \in inked : k >= j)

\* The keys one file adds: citation_keys.update(keys) for every match.
KeysOfFile(content) ==
    LET matches == FindCites(content, 1)
    IN  UNION {{Strip(key) : key \in Range(Split(matches[m], ","))} : m \in 1..Len(matches)}

extract_citation_keys(files) == UNION {KeysOfFile(files[f]) : f \in 1..Len(files)}

(***************************************************************************)
(* SpecExtract: extract_citation_keys applied to the texts of .tex files   *)
(***************************************************************************)

\* The most pieces the first file's text is made of.
MaxDocPieces == 3

DocPieces ==
    {S("\\cite{"), S("\\citep*"), S("*{"), S("{"), S("}"), S("a, b}"), S(" ,k\n}")}

RECURSIVE PiecedDocs(_)
PiecedDocs(n) ==
    IF n = 0 THEN {<<>>}
    ELSE PiecedDocs(n - 1) \cup
         {d \o piece : d \in PiecedDocs(n - 1), piece \in DocPieces}

\* The files that follow the first: none, one, or two that repeat keys.
OtherDocs ==
    {<<>>,
     <<S("see \\citet{k}.")>>,
     <<S("no markers: \\ref{a} \\cite {a} \\cite2{a}"), S("\\cite{a,a}\\citeauthor*{ b }")>>}

ExtractInit ==
    /\ pc = "extract_citation_keys"
    /\ arg \in {<<d>> \o others : d \in PiecedDocs(MaxDocPieces), others \in OtherDocs}
    /\ tokens = <<>>
    /\ new_title_parts = <<>>
    /\ ret = {}
    /\ ret2 = <<>>
    /\ PipelineIdle

\* citation_keys = extract_citation_keys(tex_files)
ApplyExtract ==
    /\ pc = "extract_citation_keys"
    /\ ret' = extract_citation_keys(arg)
    /\ pc' = "done"
    /\ UNCHANGED <<arg, tokens, new_title_parts, ret2>>
    /\ UNCHANGED pipeVars

ExtractNext == ApplyExtract

SpecExtract == ExtractInit /\ [][ExtractNext]_vars

\* doc[p..e] is a citation marker: \cite, letters, an optional "*", then
\* "{", a non-empty content without "}", and "}"; b is the place of its "{".
MarkerAt(doc, p, b, e) ==
    /\ p + 4 <= Len(doc)
    /\ SubSeq(doc, p, p + 4) = S("\\cite")
    /\ \E l \in (p + 4)..(b - 1) :
        /\ \A k \in (p + 5)..l : IsAlpha(doc[k])
        /\ l = b - 1 \/ (l = b - 2 /\ doc[b - 1] = "*")
    /\ doc[b] = "{"
    /\ e > b + 1
    /\ doc[e] = "}"
    /\ \A k \in (b + 1)..(e - 1) : doc[k] # "}"

\* The places of doc that hold the character c.
Places(doc, c) == {k \in 1..Len(doc) : doc[k] = c}

\* The markers of doc, each <<its start, its "{", its "}">>.
Markers(doc) ==
    {m \in Places(doc, "\\") \X Places(doc, "{") \X Places(doc, "}") :
        MarkerAt(doc, m[1], m[2], m[3])}

\* The markers that are matches of the scan: a match does not begin inside
\* another marker.
MarkersMatched(doc) ==
    LET ms == Markers(doc)
    IN  {m \in ms : ~\E n \in ms : n[1] < m[1] /\ m[1] <= n[3]}

\* s[i..j] (empty when j = i - 1) is a comma-separated token of s[lo..hi].
CommaToken(s, lo, hi, i, j) ==
    /\ lo <= i /\ i <= j + 1 /\ j <= hi
    /\ i = lo \/ s[i - 1] = ","
    /\ j = hi \/ s[j + 1] = ","
    /\ \A k \in i..j : s[k] # ","

CommaTokens(s, lo, hi) ==
    {t \in ({lo} \cup {k + 1 : k \in Places(s, ",")}) \X ({hi} \cup {k - 1 : k \in Places(s, ",")}) :
        CommaToken(s, lo, hi, t[1], t[2])}

\* s[x..y] is s[i..j] without the whitespace at its two ends.
Trimmed(s, i, j, x, y) ==
    /\ i <= x /\ x <= y + 1 /\ y <= j
    /\ \A k \in i..(x - 1) : IsSpace(s[k])
    /\ \A k \in (y + 1)..j : IsSpace(s[k])
    /\ x <= y => ~IsSpace(s[x]) /\ ~IsSpace(s[y])

TrimmedTokens(s, lo, hi) ==
    UNION {{SubSeq(s, z[1], z[2]) : z \in
                {z \in (t[1]..(t[2] + 1)) \X ((t[1] - 1)..t[2]) :
                    Trimmed(s, t[1], t[2], z[1], z[2])}}
           : t \in CommaTokens(s, lo, hi)}

\* The trimmed comma-separated tokens inside the braces of the matches.
ClaimedKeys(files) ==
    UNION {UNION {TrimmedTokens(files[f], m[2] + 1, m[3] - 1) : m \in MarkersMatched(files[f])}
           : f \in 1..Len(files)}

\* C2: extract_citation_keys returns exactly the set of whitespace-trimmed,
\* comma-separated tokens inside the braces of every citation-marker match
\* of every document; a key that occurs several times is in the set once.
ExtractedKeysExact == pc = "done" => ret = ClaimedKeys(arg)

\* Reached: three files; a starred marker with letters after \cite, a key
\* with whitespace around it, and the key k in two files.
ExtractWitness ==
    /\ pc = "done"
    /\ Len(arg) = 3
    /\ arg[1] = S("\\citep*{ ,k\n}")
    /\ ret = {<<>>, S("k"), S("a"), S("b")}

(***************************************************************************)
(* standardize_authors and correct_capitalization (process_bib.py)         *)
(***************************************************************************)

\* The end of the longest run of whitespace that starts at from (from - 1:
\* none).
SpacesEnd(s, from) ==
    IF \E k \in from..Len(s) : ~IsSpace(s[k])
    THEN (CHOOSE k \in from..Len(s) :
            /\ ~IsSpace(s[k])
            /\ \A j \in from..(k - 1) : IsSpace(s[j])) - 1
    ELSE Len(s)

\* Where \s+and\s+ matched at p ends, or 0.
AndEnd(s, p) ==
    LET q == SpacesEnd(s, p)
    IN  IF q >= p /\ q + 4 <= Len(s) /\ SubSeq(s, q + 1, q + 3) = S("and")
           /\ IsSpace(s[q + 4])
        THEN SpacesEnd(s, q + 4) ELSE 0

\* re.split(r'\s+and\s+', s): the pieces from position p on, the piece that
\* is open beginning at start.
RECURSIVE SplitAnd(_, _, _)
SplitAnd(s, start, p) ==
    IF p > Len(s) THEN <<SubSeq(s, start, Len(s))>>
    ELSE LET e == AndEnd(s, p)
         IN  IF e = 0 THEN SplitAnd(s, start, p + 1)
             ELSE <<SubSeq(s, start, p - 1)>> \o SplitAnd(s, e + 1, e + 1)

\* str.split(): the runs of characters that are not whitespace.
RECURSIVE SplitWords(_)
SplitWords(s) ==
    LET k == SpacesEnd(s, 1) + 1
    IN  IF k > Len(s) THEN <<>>
        ELSE LET r == FirstOf(s, k, {" ", "\t", "\n", "\r", "\f"})
                 e == IF r = 0 THEN Len(s) ELSE r - 1
             IN  <<SubSeq(s, k, e)>> \o SplitWords(SubSeq(s, e + 1, Len(s)))

\* What a call gives: a value, or an exception that ends the run.
Returned(value) == [raised |-> FALSE, value |-> value]

Raised(exception) == [raised |-> TRUE, exception |-> exception]

\* The body of the loop over the authors: standardized_author.
StandardizedAuthor(name) ==
    LET author == Strip(name)
        comma == FirstOf(author, 1, {","})
        names == SplitWords(author)
        CapitalizeAll(first_names) ==
            Join(S(" "), [k \in 1..Len(SplitWords(first_names)) |->
                            Capitalize(SplitWords(first_names)[k])])
        Named(last_name, first_names) ==
            IF CapitalizeAll(first_names) # <<>>
            THEN Returned(Capitalize(last_name) \o S(", ") \o CapitalizeAll(first_names))
            ELSE Returned(Capitalize(last_name))
    IN  IF comma # 0
        THEN Named(Strip(SubSeq(author, 1, comma - 1)),
                   Strip(SubSeq(author, comma + 1, Len(author))))
        ELSE IF Len(names) > 1
        THEN Named(names[Len(names)], Join(S(" "), SubSeq(names, 1, Len(names) - 1)))
        ELSE IF names = <<>> THEN Raised("IndexError")
        ELSE Named(names[1], <<>>)

standardize_authors(author_field) ==
    LET authors == SplitAnd(author_field, 1, 1)
        done == [k \in 1..Len(authors) |-> StandardizedAuthor(authors[k])]
    IN  IF \E k \in 1..Len(done) : done[k].raised THEN Raised("IndexError")
        ELSE Returned(Join(S(" and "), [k \in 1..Len(done) |-> done[k].value]))

\* The entry with entry[field] = value.
SetField(entry, field, value) ==
    [f \in DOMAIN entry \cup {field} |-> IF f = field THEN value ELSE entry[f]]

\* entry['author'] = standardize_authors(entry['author']), which may raise.
WithAuthor(entry, standardized) ==
    IF standardized.raised THEN standardized
    ELSE Returned(SetField(entry, "author", standardized.value))

\* entry['title'] = title_case(entry['title'])
WithTitle(entry) ==
    IF "title" \in DOMAIN entry
    THEN SetField(entry, "title", title_case(entry.title)) ELSE entry

\* correct_capitalization(entry): the entry as it leaves it.
correct_capitalization(entry) ==
    IF "author" \in DOMAIN entry
    THEN WithAuthor(WithTitle(entry), standardize_authors(entry.author))
    ELSE Returned(WithTitle(entry))

(***************************************************************************)
(* read_bib_files                                                          *)
(***************************************************************************)

\* The entries of the files in the order they are read, each with the name
\* of its file; a file is [name, entries], the entries as bibtexparser
\* gives them.
RECURSIVE RecordsOf(_)
RecordsOf(files) ==
    IF files = <<>> THEN <<>>
    ELSE [k \in 1..Len(files[1].entries) |->
            [filename |-> files[1].name, entry |-> files[1].entries[k]]]
         \o RecordsOf(Tail(files))

\* The places of entries that hold an entry with the key entry_id.
PlacesOfKey(entries, entry_id) == {k \in 1..Len(entries) : entries[k].ID = entry_id}

\* The loop body with the test left out: all_entries[entry_id] = entry,
\* which keeps the key's place in the dict and replaces its value.
ReadRecordOverwriting(read, record) ==
    IF PlacesOfKey(read.entries, record.entry.ID) = {}
    THEN [read EXCEPT !.entries = Append(@, record.entry)]
    ELSE [read EXCEPT !.entries =
            [k \in 1..Len(@) |-> IF @[k].ID = record.entry.ID THEN record.entry ELSE @[k]]]

\* The loop body: the entry is added under a new key; a key that is in
\* all_entries already prints one line.
ReadRecord(read, record) ==
    IF PlacesOfKey(read.entries, record.entry.ID) = {}
    THEN [read EXCEPT !.entries = Append(@, record.entry)]
    ELSE [read EXCEPT !.printed =
            Append(@, [entry_id |-> record.entry.ID, filename |-> record.filename])]

RECURSIVE ReadRecords(_, _)
ReadRecords(read, records) ==
    IF records = <<>> THEN read
    ELSE ReadRecords(ReadRecord(read, records[1]), Tail(records))

\* read_bib_files(bib_directory): list(all_entries.values()), and the lines
\* printed.
read_bib_files(files) == ReadRecords([entries |-> <<>>, printed |-> <<>>], RecordsOf(files))

(***************************************************************************)
(* unify_entry_fields, check_required_fields, separate_entries             *)
(* (process_bib.py)                                                        *)
(***************************************************************************)

\* entry.get('ENTRYTYPE', '').lower()
EntryType(entry) == Lower(Get(entry, "ENTRYTYPE", <<>>))

\* set(entry.keys()) - {'ID', 'ENTRYTYPE'}
Fields(entry) == DOMAIN entry \ {"ID", "ENTRYTYPE"}

\* The first loop of unify_entry_fields: category_fields.
CategoryFields(entries) ==
    [t \in {EntryType(entries[k]) : k \in 1..Len(entries)} |->
        UNION {Fields(entries[k]) : k \in {j \in 1..Len(entries) : EntryType(entries[j]) = t}}]

\* The entry with the empty string under every field of fields it lacks.
WithPlaceholders(entry, fields) ==
    [f \in DOMAIN entry \cup fields |-> IF f \in DOMAIN entry THEN entry[f] ELSE <<>>]

\* unify_entry_fields(entries): category_fields, and the entries as its second
\* loop leaves them.
unify_entry_fields(entries) ==
    [category_fields |-> CategoryFields(entries),
     entries |-> [k \in 1..Len(entries) |->
                    WithPlaceholders(entries[k], CategoryFields(entries)[EntryType(entries[k])])]]

\* required_fields_mapping.get(entry_type, []) of main() (process_bib.py).
required_fields_mapping_get(entry_type) ==
    CASE entry_type = S("article") -> <<"author", "title", "journal", "year", "doi">>
      [] entry_type = S("inproceedings") -> <<"author", "title", "booktitle", "year", "doi">>
      [] entry_type = S("proceedings") -> <<"editor", "title", "year">>
      [] entry_type = S("book") -> <<"author", "title", "publisher", "year">>
      [] entry_type = S("misc") -> <<"author", "title", "howpublished", "year">>
      [] OTHER -> <<>>

\* check_required_fields(entry, required_fields, missing_fields_report): the
\* entry and the report as it leaves them.
check_required_fields(entry, required, report) ==
    LET missing_fields == SelectSeq(required, LAMBDA field : field \notin DOMAIN entry)
    IN  [entry |-> WithPlaceholders(entry, Range(missing_fields)),
         report |-> IF missing_fields # <<>>
                    THEN Append(report, [ID |-> entry.ID, ENTRYTYPE |-> entry.ENTRYTYPE,
                                         missing_fields |-> missing_fields])
                    ELSE report]

\* separate_entries with the two appends exchanged.
RECURSIVE separate_entries_exchanged(_, _)
separate_entries_exchanged(entries, keys) ==
    IF entries = <<>> THEN [used |-> <<>>, unused |-> <<>>]
    ELSE LET rest == separate_entries_exchanged(SubSeq(entries, 1, Len(entries) - 1), keys)
             entry == entries[Len(entries)]
         IN  IF entry.ID \notin keys
             THEN [rest EXCEPT !.used = Append(@, entry)]
             ELSE [rest EXCEPT !.unused = Append(@, entry)]

\* separate_entries(entries, citation_keys): (used_entries, unused_entries).
RECURSIVE separate_entries(_, _)
separate_entries(entries, keys) ==
    IF entries = <<>> THEN [used |-> <<>>, unused |-> <<>>]
    ELSE LET rest == separate_entries(SubSeq(entries, 1, Len(entries) - 1), keys)
             entry == entries[Len(entries)]
         IN  IF entry.ID \in keys
             THEN [rest EXCEPT !.used = Append(@, entry)]
             ELSE [rest EXCEPT !.unused = Append(@, entry)]

(***************************************************************************)
(* Spec: main() of process_bib.py                                          *)
(***************************************************************************)

\* The most .bib files of the project directory.
MaxBibFiles == 3

Entry(id, type) == [ID |-> S(id), ENTRYTYPE |-> S(type)]

\* The .bib files a project directory may hold.  k1 and k2 are defined in
\* two files with different contents; k2 lacks fields that k1, of its type,
\* has; k2 and k5 are articles whose titles are equal once lowercased.
BibFilePool ==
    {[name |-> "a.bib", entries |->
        <<Entry("k1", "article") @@
            [author |-> S("jane doe and john smith"), title |-> S("deep learning of things"),
             journal |-> S("Nature"), year |-> S("2020")],
          Entry("k2", "article") @@
            [author |-> S("Doe, J."), title |-> S("a study")]>>],
     [name |-> "b.bib", entries |->
        <<Entry("k1", "inproceedings") @@
            [title |-> S("another {GAN}"), booktitle |-> S("CHI '24.")],
          Entry("k3", "misc") @@
            [title |-> S("notes"), howpublished |-> S("arXiv preprint")]>>],
     [name |-> "c.bib", entries |->
        <<Entry("k4", "book") @@
            [author |-> S("knuth"), title |-> S("TAOCP"), publisher |-> S("AW"),
             year |-> S("1968")],
          Entry("k2", "article") @@
            [author |-> <<>>, title |-> S("A Study")]>>],
     [name |-> "d.bib", entries |->
        <<Entry("k5", "Article") @@ [title |-> S("A STUDY"), doi |-> S("10.1/x")],
          Entry("k6", "techreport") @@ [title |-> S("notes")],
          Entry("k5", "article") @@ [title |-> S("later")]>>]}

\* The orders in which os.listdir may give n or fewer of the files.
RECURSIVE Listings(_, _)
Listings(files, n) ==
    IF n = 0 THEN {<<>>}
    ELSE Listings(files, n - 1) \cup
         {Append(l, f) : l \in {m \in Listings(files, n - 1) : Len(m) = n - 1},
                         f \in files}

\* The listings without a file twice.
BibListings(n) ==
    {l \in Listings(BibFilePool, n) : \A j, k \in 1..Len(l) : l[j] = l[k] => j = k}

\* The .tex files of the sections directory.
TexInputs ==
    {<<>>,
     <<S("as shown \\cite{k1, k3}.")>>,
     <<S("\\citet*{k2} and \\cite{k9}"), S("see \\citep{k4,k1}\n")>>}

Init ==
    /\ pc = "extract_citation_keys"
    /\ tex_files \in TexInputs
    /\ bib_files \in BibListings(MaxBibFiles)
    /\ conference = "CHI"
    /\ citation_keys = {}
    /\ all_entries = <<>>
    /\ warnings = <<>>
    /\ category_fields = <<>>
    /\ missing_fields_report = <<>>
    /\ idx = 0
    /\ required_fields = <<>>
    /\ used_entries = <<>>
    /\ unused_entries = <<>>
    /\ HarnessIdle

\* citation_keys = extract_citation_keys(sections_dir)
ExtractCitationKeys ==
    /\ pc = "extract_citation_keys"
    /\ citation_keys' = extract_citation_keys(tex_files)
    /\ pc' = "read_bib_files"
    /\ UNCHANGED <<tex_files, bib_files, conference, all_entries, warnings,
                   category_fields, missing_fields_report, idx, required_fields,
                   used_entries, unused_entries>>
    /\ UNCHANGED harnessVars

\* all_entries = read_bib_files(project_directory)
ReadBibFiles ==
    /\ pc = "read_bib_files"
    /\ all_entries' = read_bib_files(bib_files).entries
    /\ warnings' = read_bib_files(bib_files).printed
    /\ pc' = "correct_capitalization"
    /\ UNCHANGED <<tex_files, bib_files, conference, citation_keys,
                   category_fields, missing_fields_report, idx, required_fields,
                   used_entries, unused_entries>>
    /\ UNCHANGED harnessVars

\* The least place of results that holds an exception, or one past the last.
FirstRaised(results) ==
    IF \E k \in 1..Len(results) : results[k].raised
    THEN CHOOSE k \in 1..Len(results) :
            /\ results[k].raised
            /\ \A j \in 1..(k - 1) : ~results[j].raised
    ELSE Len(results) + 1

\* The entries as a loop that changes them one by one leaves them when the
\* changes are results and the first exception ends the loop.
UpTo(stop, entries, results) ==
    [raised |-> stop <= Len(entries),
     entries |-> [k \in 1..Len(entries) |-> IF k < stop THEN results[k].value ELSE entries[k]]]

UpToFirstRaised(entries, results) == UpTo(FirstRaised(results), entries, results)

\* The loop "for entry in all_entries: correct_capitalization(entry)".
CorrectAll(entries) ==
    UpToFirstRaised(entries, [k \in 1..Len(entries) |-> correct_capitalization(entries[k])])

\* all_entries and pc after a loop over all_entries that may raise.
LoopEnds(after, next) ==
    /\ all_entries' = after.entries
    /\ pc' = IF after.raised THEN "raised" ELSE next

CorrectCapitalization ==
    /\ pc = "correct_capitalization"
    /\ LoopEnds(CorrectAll(all_entries), "unify_entry_fields")
    /\ UNCHANGED <<tex_files, bib_files, conference, citation_keys, warnings,
                   category_fields, missing_fields_report, idx, required_fields,
                   used_entries, unused_entries>>
    /\ UNCHANGED harnessVars

\* category_fields = unify_entry_fields(all_entries)
UnifyEntryFields ==
    /\ pc = "unify_entry_fields"
    /\ category_fields' = unify_entry_fields(all_entries).category_fields
    /\ all_entries' = unify_entry_fields(all_entries).entries
    /\ missing_fields_report' = <<>>
    /\ idx' = 1
    /\ pc' = "check_required_fields"
    /\ UNCHANGED <<tex_files, bib_files, conference, citation_keys, warnings,
                   required_fields, used_entries, unused_entries>>
    /\ UNCHANGED harnessVars

\* One turn of the loop "for entry in all_entries: ...
\* check_required_fields(entry, required_fields, missing_fields_report)".
CheckRequiredFields ==
    /\ pc = "check_required_fields"
    /\ idx <= Len(all_entries)
    /\ LET required == required_fields_mapping_get(EntryType(all_entries[idx]))
           checked == check_required_fields(all_entries[idx], required, missing_fields_report)
       IN  /\ required_fields' = required
           /\ all_entries' = [all_entries EXCEPT ![idx] = checked.entry]
           /\ missing_fields_report' = checked.report
    /\ idx' = idx + 1
    /\ UNCHANGED <<pc, tex_files, bib_files, conference, citation_keys, warnings,
                   category_fields, used_entries, unused_entries>>
    /\ UNCHANGED harnessVars

\* used_entries, unused_entries = separate_entries(all_entries, citation_keys)
SeparateEntries ==
    /\ pc = "check_required_fields"
    /\ idx > Len(all_entries)
    /\ used_entries' = separate_entries(all_entries, citation_keys).used
    /\ unused_entries' = separate_entries(all_entries, citation_keys).unused
    /\ pc' = "sort_entries"
    /\ UNCHANGED <<tex_files, bib_files, conference, citation_keys, all_entries,
                   warnings, category_fields, missing_fields_report, idx, required_fields>>
    /\ UNCHANGED harnessVars

\* used_entries = sort_entries(used_entries);
\* unused_entries = sort_entries(unused_entries); write_bib_file(...)
SortEntries ==
    /\ pc = "sort_entries"
    /\ used_entries' = sort_entries(used_entries)
    /\ unused_entries' = sort_entries(unused_entries)
    /\ pc' = "done"
    /\ UNCHANGED <<tex_files, bib_files, conference, citation_keys, all_entries,
                   warnings, category_fields, missing_fields_report, idx, required_fields>>
    /\ UNCHANGED harnessVars

Next ==
    \/ ExtractCitationKeys
    \/ ReadBibFiles
    \/ CorrectCapitalization
    \/ UnifyEntryFields
    \/ CheckRequiredFields
    \/ SeparateEntries
    \/ SortEntries

Spec == Init /\ [][Next]_vars

\* The places of a set, in increasing order.
RECURSIVE InOrder(_)
InOrder(places) ==
    IF places = {} THEN <<>>
    ELSE LET least == CHOOSE k \in places : \A j \in places : k <= j
         IN  <<least>> \o InOrder(places \ {least})

\* The places of the records that are the first with their key.
FirstSeen(records) ==
    {k \in 1..Len(records) : \A j \in 1..(k - 1) : records[j].entry.ID # records[k].entry.ID}

\* C3: the list read_bib_files returns has pairwise distinct keys, holds for
\* each key the first record read with that key, in first-seen order, and
\* one duplicate warning is printed per discarded later record.
ReadKeepsFirst ==
    pc = "correct_capitalization" =>
        LET records == RecordsOf(bib_files)
            first == InOrder(FirstSeen(records))
            later == InOrder((1..Len(records)) \ FirstSeen(records))
        IN  /\ \A j, k \in 1..Len(all_entries) :
                    all_entries[j].ID = all_entries[k].ID => j = k
            /\ all_entries = [k \in 1..Len(first) |-> records[first[k]].entry]
            /\ Len(warnings) = Len(records) - Len(all_entries)
            /\ warnings = [k \in 1..Len(later) |->
                            [entry_id |-> records[later[k]].entry.ID,
                             filename |-> records[later[k]].filename]]

\* Reached: two files that define one key with different contents have been
\* read; the first file's entry is kept and one warning is printed.
ReadWitness ==
    /\ pc = "correct_capitalization"
    /\ Len(bib_files) = 2
    /\ Len(warnings) = 1
    /\ \E e \in Range(bib_files[2].entries) :
        /\ e.ID = warnings[1].entry_id
        /\ e \notin Range(all_entries)
        /\ \E f \in Range(bib_files[1].entries) : f.ID = e.ID /\ f \in Range(all_entries)

\* C1: separate_entries puts every entry in exactly one of used and unused,
\* in used if and only if its key is a citation key, and keeps the input
\* order inside each list.
SeparatePartitions ==
    pc = "sort_entries" =>
        /\ Range(used_entries) \cup Range(unused_entries) = Range(all_entries)
        /\ Range(used_entries) \cap Range(unused_entries) = {}
        /\ Len(used_entries) + Len(unused_entries) = Len(all_entries)
        /\ \A e \in Range(all_entries) : e \in Range(used_entries) <=> e.ID \in citation_keys
        /\ used_entries = SelectSeq(all_entries, LAMBDA e : e \in Range(used_entries))
        /\ unused_entries = SelectSeq(all_entries, LAMBDA e : e \in Range(unused_entries))

\* Reached: entries have been separated into two used and two unused ones.
SeparateWitness ==
    /\ pc = "sort_entries"
    /\ Len(used_entries) >= 2
    /\ Len(unused_entries) >= 2

\* The entry of entries with the key entry_id.
EntryOfKey(entries, entry_id) == entries[CHOOSE k \in 1..Len(entries) : entries[k].ID = entry_id]

\* C9: in a run, for every loaded entry and every field required for its
\* type that the entry lacks as loaded, the entry ends with the field set to
\* the empty string and the report holds exactly one item for the entry (its
\* key and type) whose missing_fields lists the field, in profile order; an
\* entry that lacks no required field gets no item.
MissingFieldsReported ==
    pc = "done" =>
        \A loaded \in Range(read_bib_files(bib_files).entries) :
            LET required == required_fields_mapping_get(Lower(loaded.ENTRYTYPE))
                lacking == SelectSeq(required, LAMBDA f : f \notin DOMAIN loaded)
                items == {k \in 1..Len(missing_fields_report) :
                            missing_fields_report[k].ID = loaded.ID}
            IN  IF lacking = <<>> THEN items = {}
                ELSE /\ \A f \in Range(lacking) : EntryOfKey(all_entries, loaded.ID)[f] = <<>>
                     /\ \E k \in items :
                            /\ items = {k}
                            /\ missing_fields_report[k].ENTRYTYPE = loaded.ENTRYTYPE
                            /\ Range(lacking) \subseteq Range(missing_fields_report[k].missing_fields)
                            /\ missing_fields_report[k].missing_fields =
                                SelectSeq(required, LAMBDA f :
                                    f \in Range(missing_fields_report[k].missing_fields))

(***************************************************************************)
(* SpecOrder: main() of process_bib.py under two orders of os.listdir      *)
(***************************************************************************)

\* The loop of main() over all_entries that validates them, from place k on.
RECURSIVE CheckFrom(_, _, _)
CheckFrom(entries, report, k) ==
    IF k > Len(entries) THEN [entries |-> entries, report |-> report]
    ELSE LET checked == check_required_fields(
                            entries[k], required_fields_mapping_get(EntryType(entries[k])), report)
         IN  CheckFrom([entries EXCEPT ![k] = checked.entry], checked.report, k + 1)

\* The two sorted lists main() writes.
SortBoth(separated) ==
    [used |-> sort_entries(separated.used), unused |-> sort_entries(separated.unused)]

\* main() from unify_entry_fields on, when no exception ended it before.
MainAfter(corrected, keys) ==
    IF corrected.raised THEN Raised("IndexError")
    ELSE Returned(SortBoth(separate_entries(
            CheckFrom(unify_entry_fields(corrected.entries).entries, <<>>, 1).entries, keys)))

\* What main() writes for the .bib files in listing order and the .tex files.
main_output(files, texs) ==
    MainAfter(CorrectAll(read_bib_files(files).entries), extract_citation_keys(texs))

OrderInit ==
    /\ pc = "first_order"
    /\ arg \in {[first |-> l1, second |-> l2, tex |-> t] :
                    l1 \in BibListings(MaxBibFiles),
                    l2 \in BibListings(MaxBibFiles),
                    t \in TexInputs}
    /\ Range(arg.first) = Range(arg.second)
    /\ tokens = <<>>
    /\ new_title_parts = <<>>
    /\ ret = <<>>
    /\ ret2 = <<>>
    /\ PipelineIdle

\* main() where os.listdir gives the files in the first order.
RunFirstOrder ==
    /\ pc = "first_order"
    /\ ret' = main_output(arg.first, arg.tex)
    /\ pc' = "second_order"
    /\ UNCHANGED <<arg, tokens, new_title_parts, ret2>>
    /\ UNCHANGED pipeVars

\* main() where os.listdir gives the same files in the second order.
RunSecondOrder ==
    /\ pc = "second_order"
    /\ ret2' = main_output(arg.second, arg.tex)
    /\ pc' = "done"
    /\ UNCHANGED <<arg, tokens, new_title_parts, ret>>
    /\ UNCHANGED pipeVars

OrderNext == RunFirstOrder \/ RunSecondOrder

SpecOrder == OrderInit /\ [][OrderNext]_vars

\* C4: the order in which the .bib files are enumerated does not affect the
\* output: two orders of the same files give the same used and the same
\* unused sequence.
ListingOrderIrrelevant == pc = "done" => ret = ret2

\* What the actions of Spec leave is what main_output computes.
OutputAgrees ==
    pc = "done" =>
        main_output(bib_files, tex_files) =
            Returned([used |-> used_entries, unused |-> unused_entries])

(***************************************************************************)
(* SpecMain: main() of main.py                                             *)
(***************************************************************************)

\* conference_format_mapping[conference].get(entry_type, [])
conference_format_mapping_get(conf, entry_type) ==
    IF conf = "CVPR"
    THEN CASE entry_type = S("article") -> <<"author", "title", "journal", "year">>
           [] entry_type = S("inproceedings") -> <<"author", "title", "booktitle", "year">>
           [] entry_type = S("book") -> <<"author", "title", "publisher", "year">>
           [] entry_type = S("misc") -> <<"author", "title", "year", "howpublished">>
           [] entry_type = S("arxiv") -> <<"author", "title", "journal", "year">>
           [] OTHER -> <<>>
    ELSE CASE entry_type = S("article") ->
                <<"author", "title", "journal", "volume", "number", "year", "address",
                  "publisher">>
           [] entry_type = S("inproceedings") ->
                <<"author", "title", "booktitle", "year", "address", "publisher", "pages">>
           [] entry_type = S("book") -> <<"author", "title", "year", "address", "publisher">>
           [] entry_type = S("misc") -> <<"author", "title", "howpublished", "year">>
           [] entry_type = S("arxiv") -> <<"author", "title", "journal", "year">>
           [] OTHER -> <<>>

\* The word of title_case (main.py) at place i of words.
MainTitleWord(words, i) ==
    IF i # 1 /\ i # Len(words) /\ Lower(words[i]) \in lowercase_words
    THEN words[i]
    ELSE <<UpperCh(words[i][1])>> \o Tail(words[i])

\* title_case(title) of main.py, from the words title.split() gives.
MainTitleJoin(words) == Join(<<" ">>, [i \in 1..Len(words) |-> MainTitleWord(words, i)])

main_title_case(title) == MainTitleJoin(SplitWords(title))

\* correct_capitalization(entry) of main.py: the entry as it leaves it.
main_correct_capitalization(entry) ==
    IF "title" \in DOMAIN entry
    THEN SetField(entry, "title", main_title_case(entry.title)) ELSE entry

\* sub in s
Contains(s, sub) ==
    \E k \in 1..(Len(s) - Len(sub) + 1) : SubSeq(s, k, k + Len(sub) - 1) = sub

\* determine_arxiv(entry): the loop runs over every key of the entry dict.
determine_arxiv(entry) ==
    \E field \in DOMAIN entry : Contains(Lower(entry[field]), S("arxiv"))

\* The required_fields main() of main.py chooses for an entry.
MainRequiredFields(conf, entry) ==
    IF EntryType(entry) = S("misc") /\ determine_arxiv(entry)
    THEN conference_format_mapping_get(conf, S("arxiv"))
    ELSE conference_format_mapping_get(conf, EntryType(entry))

\* The loop "for field in fields_to_remove: del entry[field]" left out.
WithOthersKept(entry, required) == entry

\* The entry after the fields of fields_to_remove are deleted.
WithoutOthers(entry, required) ==
    [f \in {g \in DOMAIN entry : g \in Range(required) \/ g \in {"ID", "ENTRYTYPE"}} |->
        entry[f]]

\* check_required_fields(entry, required_fields, missing_fields_report) of
\* main.py: the entry and the report as it leaves them.
main_check_required_fields(entry, required, report) ==
    check_required_fields(WithoutOthers(entry, required), required, report)

\* sorted_groups of sort_entries (main.py): the types in full_type_order, each
\* with its entries sorted by title.
main_sort_entries(entries) ==
    [k \in 1..Len(full_type_order(entries)) |->
        [entry_type |-> full_type_order(entries)[k],
         entries |-> SortByTitle(EntriesOfType(entries, full_type_order(entries)[k]))]]

\* The files of BibFilePool and one of misc entries: one whose key holds
\* "arxiv" and no field does, one without "arxiv", and one whose note holds it.
MainBibFilePool ==
    BibFilePool \cup
    {[name |-> "e.bib", entries |->
        <<Entry("arxiv2020", "misc") @@
            [title |-> S("on the things"), howpublished |-> S("tech note"),
             year |-> S("2020")],
          Entry("k7", "misc") @@ [title |-> S("plain"), url |-> S("x.org")],
          Entry("k8", "Misc") @@ [title |-> S("of\tnote"), note |-> S("see ArXiv:1")]>>]}

MainBibListings(n) ==
    {l \in Listings(MainBibFilePool, n) : \A j, k \in 1..Len(l) : l[j] = l[k] => j = k}

MainInit ==
    /\ pc = "extract_citation_keys"
    /\ tex_files \in TexInputs
    /\ bib_files \in MainBibListings(MaxBibFiles)
    /\ conference \in {"CVPR", "CHI"}
    /\ citation_keys = {}
    /\ all_entries = <<>>
    /\ warnings = <<>>
    /\ category_fields = <<>>
    /\ missing_fields_report = <<>>
    /\ idx = 0
    /\ required_fields = <<>>
    /\ used_entries = <<>>
    /\ unused_entries = <<>>
    /\ HarnessIdle

\* The loop "for entry in all_entries: correct_capitalization(entry)" and
\* category_fields = unify_entry_fields(all_entries) of main.py.
MainCorrectCapitalization ==
    /\ pc = "correct_capitalization"
    /\ all_entries' = [k \in 1..Len(all_entries) |-> main_correct_capitalization(all_entries[k])]
    /\ pc' = "unify_entry_fields"
    /\ UNCHANGED <<tex_files, bib_files, conference, citation_keys, warnings,
                   category_fields, missing_fields_report, idx, required_fields,
                   used_entries, unused_entries>>
    /\ UNCHANGED harnessVars

\* category_fields = unify_entry_fields(all_entries) of main.py, which leaves
\* the entries as they are.
MainUnifyEntryFields ==
    /\ pc = "unify_entry_fields"
    /\ category_fields' = CategoryFields(all_entries)
    /\ missing_fields_report' = <<>>
    /\ idx' = 1
    /\ pc' = "check_required_fields"
    /\ UNCHANGED <<tex_files, bib_files, conference, citation_keys, all_entries, warnings,
                   required_fields, used_entries, unused_entries>>
    /\ UNCHANGED harnessVars

\* What one turn of the validation loop of main.py leaves.
MainChecked(required, checked) ==
    /\ required_fields' = required
    /\ all_entries' = [all_entries EXCEPT ![idx] = checked.entry]
    /\ missing_fields_report' = checked.report

MainCheckedAgainst(required) ==
    MainChecked(required,
                main_check_required_fields(all_entries[idx], required, missing_fields_report))

\* One turn of the loop of main.py that chooses required_fields and calls
\* check_required_fields.
MainCheckRequiredFields ==
    /\ pc = "check_required_fields"
    /\ idx <= Len(all_entries)
    /\ MainCheckedAgainst(MainRequiredFields(conference, all_entries[idx]))
    /\ idx' = idx + 1
    /\ UNCHANGED <<pc, tex_files, bib_files, conference, citation_keys, warnings,
                   category_fields, used_entries, unused_entries>>
    /\ UNCHANGED harnessVars

\* used_entries = sort_entries(used_entries);
\* unused_entries = sort_entries(unused_entries); write_bib_file(...) of main.py
MainSortEntries ==
    /\ pc = "sort_entries"
    /\ used_entries' = main_sort_entries(used_entries)
    /\ unused_entries' = main_sort_entries(unused_entries)
    /\ pc' = "done"
    /\ UNCHANGED <<tex_files, bib_files, conference, citation_keys, all_entries,
                   warnings, category_fields, missing_fields_report, idx, required_fields>>
    /\ UNCHANGED harnessVars

MainNext ==
    \/ ExtractCitationKeys
    \/ ReadBibFiles
    \/ MainCorrectCapitalization
    \/ MainUnifyEntryFields
    \/ MainCheckRequiredFields
    \/ SeparateEntries
    \/ MainSortEntries

SpecMain == MainInit /\ [][MainNext]_vars

\* C10: a misc entry of which some field value (the key and the type tag are
\* not fields) contains "arxiv", in any case, is validated against the arxiv
\* list of the profile; every other misc entry is validated against the misc
\* list; the stored type stays misc.
ArxivByFieldValue ==
    (pc = "check_required_fields" /\ idx > 1) =>
        LET validated == all_entries[idx - 1]
            loaded == EntryOfKey(read_bib_files(bib_files).entries, validated.ID)
        IN  Lower(loaded.ENTRYTYPE) = S("misc") =>
                /\ required_fields =
                    IF \E field \in Fields(loaded) : Contains(Lower(loaded[field]), S("arxiv"))
                    THEN conference_format_mapping_get(conference, S("arxiv"))
                    ELSE conference_format_mapping_get(conference, S("misc"))
                /\ validated.ENTRYTYPE = loaded.ENTRYTYPE

(***************************************************************************)
(* SpecDetect: detect_booktitle_discrepancies applied to an entry list     *)
(***************************************************************************)

\* re.sub(r'[.,]', '', name)
WithoutPunctuation(name) == SelectSeq(name, LAMBDA c : c \notin {".", ","})

\* normalized_name with .strip() left out.
normalized_name_unstripped(name) == WithoutPunctuation(Lower(name))

\* normalized_name = re.sub(r'[.,]', '', name.lower().strip())
normalized_name(name) == WithoutPunctuation(Strip(Lower(name)))

\* booktitle_variations[normalized_name].add(name): the dict as a list of its
\* items in insertion order.
AddVariation(variations, name) ==
    IF \E k \in 1..Len(variations) : variations[k].normalized_name = normalized_name(name)
    THEN [k \in 1..Len(variations) |->
            IF variations[k].normalized_name = normalized_name(name)
            THEN [variations[k] EXCEPT !.names = @ \cup {name}]
            ELSE variations[k]]
    ELSE Append(variations, [normalized_name |-> normalized_name(name), names |-> {name}])

\* The body of the first loop of detect_booktitle_discrepancies.
AddEntry(variations, entry) ==
    IF "booktitle" \in DOMAIN entry THEN AddVariation(variations, entry.booktitle)
    ELSE IF "journal" \in DOMAIN entry THEN AddVariation(variations, entry.journal)
    ELSE variations

\* booktitle_variations after the first loop.
RECURSIVE BooktitleVariations(_)
BooktitleVariations(entries) ==
    IF entries = <<>> THEN <<>>
    ELSE AddEntry(BooktitleVariations(SubSeq(entries, 1, Len(entries) - 1)),
                  entries[Len(entries)])

\* The second loop: the values of more than one string, in dict order.
MoreThanOne(variations) ==
    LET kept == SelectSeq(variations, LAMBDA v : Cardinality(v.names) > 1)
    IN  [k \in 1..Len(kept) |-> kept[k].names]

\* detect_booktitle_discrepancies(entries): discrepancies, and the entries as
\* the call leaves them.
detect_booktitle_discrepancies(entries) ==
    [entries |-> entries, discrepancies |-> MoreThanOne(BooktitleVariations(entries))]

\* The most entries of a list that is searched for discrepancies.
MaxDetectLen == 3

\* Entries with a booktitle, a journal, both or neither, whose venue strings
\* differ in case, in whitespace at the ends and in periods and commas.
DetectPool ==
    {Entry("k1", "inproceedings") @@ [booktitle |-> S("CHI '24.")],
     Entry("k2", "inproceedings") @@ [booktitle |-> S("chi '24")],
     Entry("k3", "article") @@ [journal |-> S("CHI '24")],
     Entry("k4", "inproceedings") @@ [booktitle |-> S("Nature"), journal |-> S("chi '24,")],
     Entry("k5", "article") @@ [journal |-> S(" nature,\n")],
     Entry("k6", "misc") @@ [title |-> S("notes")],
     Entry("k7", "inproceedings") @@ [booktitle |-> S("CHI '24 .")],
     Entry("k8", "article") @@ [booktitle |-> <<>>, journal |-> S("Nature")]}

DetectInit ==
    /\ pc = "detect_booktitle_discrepancies"
    /\ arg \in ListsOf(DetectPool, MaxDetectLen)
    /\ tokens = <<>>
    /\ new_title_parts = <<>>
    /\ ret = <<>>
    /\ ret2 = <<>>
    /\ PipelineIdle

\* discrepancies = detect_booktitle_discrepancies(all_entries)
ApplyDetect ==
    /\ pc = "detect_booktitle_discrepancies"
    /\ ret' = detect_booktitle_discrepancies(arg)
    /\ pc' = "done"
    /\ UNCHANGED <<arg, tokens, new_title_parts, ret2>>
    /\ UNCHANGED pipeVars

DetectNext == ApplyDetect

SpecDetect == DetectInit /\ [][DetectNext]_vars

\* The original strings of C11: of each entry its booktitle if it has one,
\* else its journal if it has one.
ClaimedVenues(entries) ==
    {entries[k].booktitle : k \in {j \in 1..Len(entries) : "booktitle" \in DOMAIN entries[j]}}
    \cup {entries[k].journal : k \in {j \in 1..Len(entries) :
            "booktitle" \notin DOMAIN entries[j] /\ "journal" \in DOMAIN entries[j]}}

\* A string lowercased, then trimmed, then without its periods and commas.
ClaimedNormal(s) ==
    LET low == [k \in 1..Len(s) |-> LowerCh(s[k])]
        ends == CHOOSE z \in (1..(Len(s) + 1)) \X (0..Len(s)) :
                    Trimmed(low, 1, Len(s), z[1], z[2])
        trimmed == SubSeq(low, ends[1], ends[2])
        plain == {k \in 1..Len(trimmed) : trimmed[k] # "." /\ trimmed[k] # ","}
    IN  [k \in 1..Cardinality(plain) |->
            trimmed[CHOOSE p \in plain : Cardinality({q \in plain : q <= p}) = k]]

\* C11: detect_booktitle_discrepancies groups the booktitle-else-journal
\* strings of the entries by their form after lowercasing, trimming and
\* removing periods and commas, returns exactly the groups of two or more
\* distinct strings, each once, and modifies no entry.
DiscrepanciesGroupVariants ==
    pc = "done" =>
        LET originals == ClaimedVenues(arg)
            together(s) == {t \in originals : ClaimedNormal(t) = ClaimedNormal(s)}
        IN  /\ ret.entries = arg
            /\ Range(ret.discrepancies) =
                {g \in {together(s) : s \in originals} : Cardinality(g) >= 2}
            /\ \A j, k \in 1..Len(ret.discrepancies) :
                    ret.discrepancies[j] = ret.discrepancies[k] => j = k

\* Reached: "CHI '24.", "chi '24" and "CHI '24" have come out as one group of
\* three variants.
DiscrepanciesWitness ==
    /\ pc = "done"
    /\ ret.discrepancies = <<{S("CHI '24."), S("chi '24"), S("CHI '24")}>>

\* C12: a call of the strict check_required_fields leaves the entry with
\* exactly the required fields, ID and ENTRYTYPE: fields outside the list are
\* removed, absent required fields hold the empty string, and required fields
\* that were present keep their values; also for an empty required list.
StrictShape ==
    [][(pc = "check_required_fields" /\ idx <= Len(all_entries) /\ idx' = idx + 1) =>
        LET before == all_entries[idx]
            after == all_entries'[idx]
            required == {required_fields'[k] : k \in 1..Len(required_fields')}
        IN  /\ DOMAIN after = required \cup {"ID", "ENTRYTYPE"}
            /\ \A field \in DOMAIN before \ (required \cup {"ID", "ENTRYTYPE"}) :
                    field \notin DOMAIN after
            /\ \A field \in required \ DOMAIN before : after[field] = <<>>
            /\ \A field \in required \cap DOMAIN before : after[field] = before[field]
            /\ after.ID = before.ID
            /\ after.ENTRYTYPE = before.ENTRYTYPE]_vars

\* Reached: the strict check has left a techreport, whose required list is
\* empty, without its title, and has given an article that came with a title
\* and no journal its title unchanged and an empty journal.
StrictWitness ==
    /\ pc = "check_required_fields"
    /\ idx > Len(all_entries)
    /\ \E e \in Range(all_entries) :
        /\ Lower(e.ENTRYTYPE) = S("techreport")
        /\ DOMAIN e = {"ID", "ENTRYTYPE"}
        /\ "title" \in DOMAIN EntryOfKey(read_bib_files(bib_files).entries, e.ID)
    /\ \E e \in Range(all_entries) :
        /\ Lower(e.ENTRYTYPE) = S("article")
        /\ e.title = S("A STUDY")
        /\ e.journal = <<>>
        /\ "doi" \notin DOMAIN e
        /\ "doi" \in DOMAIN EntryOfKey(read_bib_files(bib_files).entries, e.ID)

(***************************************************************************)
(* SpecAuthors: standardize_authors applied to an author field, and         *)
(* correct_capitalization applied to an entry that holds it                *)
(***************************************************************************)

\* The most pieces of an author field.
MaxAuthorPieces == 3

\* Names, the separator, whitespace and a comma.
AuthorPieces == {S("jane"), S(" and "), S(" "), S("doe, j."), S("SMITH"), S(",")}

\* The author fields of n or fewer pieces.
RECURSIVE PiecedAuthors(_)
PiecedAuthors(n) ==
    IF n = 0 THEN {<<>>}
    ELSE PiecedAuthors(n - 1) \cup
         {a \o piece : a \in PiecedAuthors(n - 1), piece \in AuthorPieces}

AuthorsInit ==
    /\ pc = "standardize_authors"
    /\ arg \in PiecedAuthors(MaxAuthorPieces)
    /\ tokens = <<>>
    /\ new_title_parts = <<>>
    /\ ret = <<>>
    /\ ret2 = <<>>
    /\ PipelineIdle

\* standardize_authors(author_field)
ApplyStandardizeAuthors ==
    /\ pc = "standardize_authors"
    /\ ret' = standardize_authors(arg)
    /\ pc' = "correct_capitalization"
    /\ UNCHANGED <<arg, tokens, new_title_parts, ret2>>
    /\ UNCHANGED pipeVars

\* correct_capitalization(entry) for an entry with the author field
ApplyCorrectCapitalization ==
    /\ pc = "correct_capitalization"
    /\ ret2' = correct_capitalization(Entry("k1", "article") @@ [author |-> arg])
    /\ pc' = "done"
    /\ UNCHANGED <<arg, tokens, new_title_parts, ret>>
    /\ UNCHANGED pipeVars

AuthorsNext == ApplyStandardizeAuthors \/ ApplyCorrectCapitalization

SpecAuthors == AuthorsInit /\ [][AuthorsNext]_vars

\* C13: author normalization is total: for every author field, the empty
\* and the whitespace-only one and one with an empty name beside " and "
\* included, standardize_authors, and so correct_capitalization, returns and
\* does not raise.
AuthorsTotal ==
    pc = "done" => ~ret.raised /\ ~ret2.raised

====
